---------------------------- MODULE Spec2Model ----------------------------
(***************************************************************************)
(* A model of the language front end of backend/app/core:                  *)
(*   - the orchestrator LanguageParser (parse, parse_file) with its file   *)
(*     reader, grammar-engine wrapper and transformer,                     *)
(*   - the AST node catalogue with its double dispatch (accept) and the    *)
(*     reference traversal DefaultASTVisitor,                              *)
(*   - the lazily attached node metadata (set_position / get_position).    *)
(***************************************************************************)
EXTENDS Integers, Sequences, FiniteSets, TLC

(***************************************************************************)
(* Python values.  Every value is a record with a tag, so that the         *)
(* run-time shape tests of the code (isinstance, hasattr, truthiness) can  *)
(* be written as they are in the source.                                   *)
(***************************************************************************)
None == [tag |-> "none"]

Str(s) == [tag |-> "str", s |-> s]

List(items) == [tag |-> "list", items |-> items]

Tuple(items) == [tag |-> "tuple", items |-> items]

NumV(n) == [tag |-> "num", n |-> n]

BoolV(b) == [tag |-> "bool", b |-> b]

\* An instance of a node class: its class and its dataclass fields in the
\* order the class declares them.
Node(type, fields) == [tag |-> "node", type |-> type, fields |-> fields]

(***************************************************************************)
(* Exceptions: the class, the message (the pieces an f-string joins, in    *)
(* order) and __cause__ (<<>> when there is none), and the class tree the  *)
(* except clauses test against.                                            *)
(***************************************************************************)
Exc(kind, msg, cause) == [kind |-> kind, msg |-> msg, cause |-> cause]

\* The base each class is declared with.
DeclaredBase(kind) ==
    CASE kind = "ParsingError"       -> "LanguageError"
      [] kind = "ValidationError"    -> "LanguageError"
      [] kind = "LanguageError"      -> "Exception"
      [] kind = "FileNotFoundError"  -> "OSError"
      [] kind = "PermissionError"    -> "OSError"
      [] kind = "UnicodeDecodeError" -> "ValueError"
      [] kind = "ValueError"         -> "Exception"
      [] kind = "OSError"            -> "Exception"
      [] kind = "UnexpectedInput"    -> "LarkError"
      [] kind = "VisitError"         -> "LarkError"
      [] kind = "LarkError"          -> "Exception"
      [] kind = "AttributeError"     -> "Exception"
      [] kind = "Exception"          -> "BaseException"
      [] kind = "KeyboardInterrupt"  -> "BaseException"
      [] OTHER                       -> "BaseException"

\* A tree in which ValidationError is declared under ParsingError.
BaseOf_ValidationUnderParsing(kind) ==
    IF kind = "ValidationError" THEN "ParsingError" ELSE DeclaredBase(kind)

BaseOf(kind) == DeclaredBase(kind)

RECURSIVE IsInstance(_, _)
IsInstance(kind, class) ==
    IF kind = class THEN TRUE
    ELSE IF kind = "BaseException" THEN FALSE
    ELSE IsInstance(BaseOf(kind), class)

\* try: <raises an exception of class kind> except clauses[1]: ...
\* except clauses[2]: ...   The index of the clause that handles it, the
\* first whose class the exception is an instance of; 0 when none does and
\* the exception leaves the statement.
FirstMatch(kind, clauses) ==
    LET hits == {k \in 1..Len(clauses) : IsInstance(kind, clauses[k])} IN
    IF hits = {} THEN 0 ELSE CHOOSE k \in hits : \A h \in hits : k <= h

\* How a call ends: with a value or with an exception.
Returned(v) == [kind |-> "returned", value |-> <<v>>, exc |-> <<>>]

Raised(e) == [kind |-> "raised", value |-> <<>>, exc |-> <<e>>]

(***************************************************************************)
(* The node catalogue (node.py) and the visitor interface (visitor.py).    *)
(***************************************************************************)
NodeKinds == {
    "Program", "Comment", "Number", "String",
    "Var", "Bool", "Null", "VarDecl",
    "Assignment", "VarTarget", "ArrayTarget", "FieldTarget",
    "ForLoop", "WhileLoop", "RepeatUntil", "IfElse",
    "CallStmt", "CallMethod", "ReturnStmt", "ArrayAccess",
    "ArraySlice", "FieldAccess", "FuncCallExpr", "BinOp",
    "ShortCircuitBinOp", "UnOp", "ClassDef", "NewObject",
    "Parameter", "SubroutineDef", "LengthFunction", "CeilFunction",
    "FloorFunction", "StrlenFunction", "ConcatFunction", "SubstringFunction",
    "AddNodeFunction", "AddEdgeFunction", "NeighborsFunction", "ArrayVarDecl",
    "ObjectVarDecl", "GraphVarDecl", "GraphOperation", "GraphTraversal",
    "NewGraph"
}

\* The dataclass fields of each node class, in the order they are declared.
FieldNames(type) ==
    CASE type = "Program" -> <<"statements">>
      [] type = "Comment" -> <<"text">>
      [] type = "Number" -> <<"value">>
      [] type = "String" -> <<"value">>
      [] type = "Var" -> <<"name">>
      [] type = "Bool" -> <<"value">>
      [] type = "Null" -> <<"value">>
      [] type = "VarDecl" -> <<"items">>
      [] type = "Assignment" -> <<"target", "value">>
      [] type = "VarTarget" -> <<"name">>
      [] type = "ArrayTarget" -> <<"name", "index">>
      [] type = "FieldTarget" -> <<"obj", "field">>
      [] type = "ForLoop" -> <<"var", "start", "end", "body", "preserve_counter_value">>
      [] type = "WhileLoop" -> <<"cond", "body">>
      [] type = "RepeatUntil" -> <<"cond", "body">>
      [] type = "IfElse" -> <<"cond", "then_branch", "else_branch">>
      [] type = "CallStmt" -> <<"name", "args">>
      [] type = "CallMethod" -> <<"obj", "method", "args">>
      [] type = "ReturnStmt" -> <<"value">>
      [] type = "ArrayAccess" -> <<"name", "index">>
      [] type = "ArraySlice" -> <<"name", "ranges">>
      [] type = "FieldAccess" -> <<"obj", "field">>
      [] type = "FuncCallExpr" -> <<"name", "args">>
      [] type = "BinOp" -> <<"op", "left", "right", "short_circuit">>
      [] type = "ShortCircuitBinOp" -> <<"op", "left", "right">>
      [] type = "UnOp" -> <<"op", "value">>
      [] type = "ClassDef" -> <<"name", "fields">>
      [] type = "NewObject" -> <<"class_name">>
      [] type = "Parameter" -> <<"name", "param_type", "dimensions", "class_name">>
      [] type = "SubroutineDef" -> <<"name", "parameters", "body">>
      [] type = "LengthFunction" -> <<"array">>
      [] type = "CeilFunction" -> <<"expr">>
      [] type = "FloorFunction" -> <<"expr">>
      [] type = "StrlenFunction" -> <<"expr">>
      [] type = "ConcatFunction" -> <<"left", "right">>
      [] type = "SubstringFunction" -> <<"string", "start", "length">>
      [] type = "AddNodeFunction" -> <<"graph", "node">>
      [] type = "AddEdgeFunction" -> <<"graph", "from_node", "to_node">>
      [] type = "NeighborsFunction" -> <<"graph", "node">>
      [] type = "ArrayVarDecl" -> <<"name", "dimensions">>
      [] type = "ObjectVarDecl" -> <<"class_name", "name">>
      [] type = "GraphVarDecl" -> <<"name">>
      [] type = "GraphOperation" -> <<"graph", "nodes">>
      [] type = "GraphTraversal" -> <<"graph", "start_node", "end_node">>
      [] OTHER -> <<>>

\* The visit operation each class's accept calls on the visitor, with self.
NodeAccept(type) ==
    CASE type = "Program" -> "visit_program"
      [] type = "Comment" -> "visit_comment"
      [] type = "Number" -> "visit_number"
      [] type = "String" -> "visit_string"
      [] type = "Var" -> "visit_var"
      [] type = "Bool" -> "visit_bool"
      [] type = "Null" -> "visit_null"
      [] type = "VarDecl" -> "visit_var_decl"
      [] type = "Assignment" -> "visit_assignment"
      [] type = "VarTarget" -> "visit_var_target"
      [] type = "ArrayTarget" -> "visit_array_target"
      [] type = "FieldTarget" -> "visit_field_target"
      [] type = "ForLoop" -> "visit_for_loop"
      [] type = "WhileLoop" -> "visit_while_loop"
      [] type = "RepeatUntil" -> "visit_repeat_until"
      [] type = "IfElse" -> "visit_if_else"
      [] type = "CallStmt" -> "visit_call_stmt"
      [] type = "CallMethod" -> "visit_call_method"
      [] type = "ReturnStmt" -> "visit_return_stmt"
      [] type = "ArrayAccess" -> "visit_array_access"
      [] type = "ArraySlice" -> "visit_array_slice"
      [] type = "FieldAccess" -> "visit_field_access"
      [] type = "FuncCallExpr" -> "visit_func_call_expr"
      [] type = "BinOp" -> "visit_bin_op"
      [] type = "ShortCircuitBinOp" -> "visit_short_circuit_bin_op"
      [] type = "UnOp" -> "visit_un_op"
      [] type = "ClassDef" -> "visit_class_def"
      [] type = "NewObject" -> "visit_new_object"
      [] type = "Parameter" -> "visit_parameter"
      [] type = "SubroutineDef" -> "visit_subroutine_def"
      [] type = "LengthFunction" -> "visit_length_function"
      [] type = "CeilFunction" -> "visit_ceil_function"
      [] type = "FloorFunction" -> "visit_floor_function"
      [] type = "StrlenFunction" -> "visit_strlen_function"
      [] type = "ConcatFunction" -> "visit_concat_function"
      [] type = "SubstringFunction" -> "visit_substring_function"
      [] type = "AddNodeFunction" -> "visit_add_node_function"
      [] type = "AddEdgeFunction" -> "visit_add_edge_function"
      [] type = "NeighborsFunction" -> "visit_neighbors_function"
      [] type = "ArrayVarDecl" -> "visit_array_var_decl"
      [] type = "ObjectVarDecl" -> "visit_object_var_decl"
      [] type = "GraphVarDecl" -> "visit_graph_var_decl"
      [] type = "GraphOperation" -> "visit_graph_operation"
      [] type = "GraphTraversal" -> "visit_graph_traversal"
      [] type = "NewGraph" -> "visit_new_graph"
      [] OTHER -> "none"

\* The abstract operations of ASTVisitor.
VisitorOps == {
    "visit_program", "visit_comment", "visit_var_decl",
    "visit_assignment", "visit_var_target", "visit_array_target",
    "visit_field_target", "visit_for_loop", "visit_while_loop",
    "visit_repeat_until", "visit_if_else", "visit_call_stmt",
    "visit_call_method", "visit_return_stmt", "visit_array_access",
    "visit_array_slice", "visit_field_access", "visit_func_call_expr",
    "visit_bin_op", "visit_short_circuit_bin_op", "visit_un_op",
    "visit_number", "visit_string", "visit_var",
    "visit_bool", "visit_null", "visit_class_def",
    "visit_new_object", "visit_subroutine_def", "visit_parameter",
    "visit_length_function", "visit_ceil_function", "visit_floor_function",
    "visit_strlen_function", "visit_concat_function", "visit_substring_function",
    "visit_new_graph", "visit_add_node_function", "visit_add_edge_function",
    "visit_neighbors_function", "visit_array_var_decl", "visit_object_var_decl",
    "visit_graph_var_decl", "visit_graph_operation", "visit_graph_traversal"
}

\* The node class each operation of ASTVisitor declares for its argument.
VisitorParam(op) ==
    CASE op = "visit_program" -> "Program"
      [] op = "visit_comment" -> "Comment"
      [] op = "visit_var_decl" -> "VarDecl"
      [] op = "visit_assignment" -> "Assignment"
      [] op = "visit_var_target" -> "VarTarget"
      [] op = "visit_array_target" -> "ArrayTarget"
      [] op = "visit_field_target" -> "FieldTarget"
      [] op = "visit_for_loop" -> "ForLoop"
      [] op = "visit_while_loop" -> "WhileLoop"
      [] op = "visit_repeat_until" -> "RepeatUntil"
      [] op = "visit_if_else" -> "IfElse"
      [] op = "visit_call_stmt" -> "CallStmt"
      [] op = "visit_call_method" -> "CallMethod"
      [] op = "visit_return_stmt" -> "ReturnStmt"
      [] op = "visit_array_access" -> "ArrayAccess"
      [] op = "visit_array_slice" -> "ArraySlice"
      [] op = "visit_field_access" -> "FieldAccess"
      [] op = "visit_func_call_expr" -> "FuncCallExpr"
      [] op = "visit_bin_op" -> "BinOp"
      [] op = "visit_short_circuit_bin_op" -> "ShortCircuitBinOp"
      [] op = "visit_un_op" -> "UnOp"
      [] op = "visit_number" -> "Number"
      [] op = "visit_string" -> "String"
      [] op = "visit_var" -> "Var"
      [] op = "visit_bool" -> "Bool"
      [] op = "visit_null" -> "Null"
      [] op = "visit_class_def" -> "ClassDef"
      [] op = "visit_new_object" -> "NewObject"
      [] op = "visit_subroutine_def" -> "SubroutineDef"
      [] op = "visit_parameter" -> "Parameter"
      [] op = "visit_length_function" -> "LengthFunction"
      [] op = "visit_ceil_function" -> "CeilFunction"
      [] op = "visit_floor_function" -> "FloorFunction"
      [] op = "visit_strlen_function" -> "StrlenFunction"
      [] op = "visit_concat_function" -> "ConcatFunction"
      [] op = "visit_substring_function" -> "SubstringFunction"
      [] op = "visit_new_graph" -> "NewGraph"
      [] op = "visit_add_node_function" -> "AddNodeFunction"
      [] op = "visit_add_edge_function" -> "AddEdgeFunction"
      [] op = "visit_neighbors_function" -> "NeighborsFunction"
      [] op = "visit_array_var_decl" -> "ArrayVarDecl"
      [] op = "visit_object_var_decl" -> "ObjectVarDecl"
      [] op = "visit_graph_var_decl" -> "GraphVarDecl"
      [] op = "visit_graph_operation" -> "GraphOperation"
      [] op = "visit_graph_traversal" -> "GraphTraversal"
      [] OTHER -> "none"

\* Where the field called name sits among the fields of a class; 0 when the
\* class has no such attribute.
FieldIndex(type, name) ==
    IF \E k \in 1..Len(FieldNames(type)) : FieldNames(type)[k] = name
    THEN CHOOSE k \in 1..Len(FieldNames(type)) : FieldNames(type)[k] = name
    ELSE 0

\* What reading an attribute that does not exist, or calling a method a
\* value does not have, runs into.
Missing == [tag |-> "missing"]

\* The value a path leads to: a field of a node, an item of a list or tuple.
RECURSIVE ValueAt(_, _)
ValueAt(v, p) ==
    IF p = <<>> THEN v
    ELSE IF v.tag = "node"
    THEN IF Head(p) \in 1..Len(v.fields) THEN ValueAt(v.fields[Head(p)], Tail(p)) ELSE Missing
    ELSE IF v.tag \in {"list", "tuple"}
    THEN IF Head(p) \in 1..Len(v.items) THEN ValueAt(v.items[Head(p)], Tail(p)) ELSE Missing
    ELSE Missing

\* node.<name>
Get(node, name) == ValueAt(node, <<FieldIndex(node.type, name)>>)

\* hasattr(v, "accept")
HasAccept(v) == v.tag = "node"

\* isinstance(v, list), isinstance(v, tuple)
IsList(v) == v.tag = "list"

IsTuple(v) == v.tag = "tuple"

\* bool(v): the dataclasses define neither __bool__ nor __len__.
Truthy(v) ==
    CASE v.tag = "none" -> FALSE
      [] v.tag = "num"  -> v.n # 0
      [] v.tag = "bool" -> v.b
      [] v.tag = "str"  -> v.s # ""
      [] v.tag \in {"list", "tuple"} -> v.items # <<>>
      [] OTHER -> TRUE

RECURSIVE Flatten(_)
Flatten(ss) == IF ss = <<>> THEN <<>> ELSE Head(ss) \o Flatten(Tail(ss))

(***************************************************************************)
(* DefaultASTVisitor.  Each operation is given by the values it calls      *)
(* accept on, in order, as paths from the node it visits.                  *)
(***************************************************************************)
\* node.<name>.accept(self)
One(node, name) == << <<FieldIndex(node.type, name)>> >>

\* for x in node.<name>: x.accept(self)
Each(node, name) ==
    LET k == FieldIndex(node.type, name)
        l == Get(node, name)
    IN  IF l.tag \in {"list", "tuple"}
        THEN [j \in 1..Len(l.items) |-> <<k, j>>]
        ELSE << <<0>> >>

\* for x in node.<name>: if hasattr(x, "accept"): x.accept(self)
EachWithAccept(node, name) ==
    SelectSeq(Each(node, name), LAMBDA p : HasAccept(ValueAt(node, p)))

visit_program(node) == Each(node, "statements")

visit_comment(node) == <<>>

visit_var_decl(node) == <<>>

visit_assignment(node) == One(node, "target") \o One(node, "value")

visit_var_target(node) == <<>>

visit_array_target(node) ==
    IF IsList(Get(node, "index"))
    THEN EachWithAccept(node, "index")
    ELSE IF HasAccept(Get(node, "index")) THEN One(node, "index") ELSE <<>>

visit_field_target(node) == <<>>

visit_for_loop(node) == One(node, "start") \o One(node, "end") \o Each(node, "body")

visit_while_loop(node) == One(node, "cond") \o Each(node, "body")

\* A post-test loop visited like a pre-test one.
visit_repeat_until_CondFirst(node) == One(node, "cond") \o Each(node, "body")

visit_repeat_until(node) == Each(node, "body") \o One(node, "cond")

visit_if_else(node) ==
    One(node, "cond") \o Each(node, "then_branch") \o Each(node, "else_branch")

visit_call_stmt(node) == Each(node, "args")

visit_call_method(node) == One(node, "obj") \o Each(node, "args")

\* A visit_return_stmt without the test of node.value.
visit_return_stmt_Unguarded(node) == One(node, "value")

visit_return_stmt(node) ==
    IF Truthy(Get(node, "value")) THEN One(node, "value") ELSE <<>>

visit_array_access(node) ==
    IF IsList(Get(node, "index"))
    THEN EachWithAccept(node, "index")
    ELSE IF HasAccept(Get(node, "index")) THEN One(node, "index") ELSE <<>>

\* One entry r of node.ranges, at path p: a (start, end) pair or an expression.
SliceRange(node, p) ==
    LET r == ValueAt(node, p) IN
    IF IsTuple(r)
    THEN (IF Truthy(ValueAt(r, <<1>>)) /\ HasAccept(ValueAt(r, <<1>>)) THEN <<p \o <<1>>>> ELSE <<>>)
         \o (IF Truthy(ValueAt(r, <<2>>)) /\ HasAccept(ValueAt(r, <<2>>)) THEN <<p \o <<2>>>> ELSE <<>>)
    ELSE IF HasAccept(r) THEN <<p>> ELSE <<>>

visit_array_slice(node) ==
    IF IsList(Get(node, "ranges"))
    THEN Flatten([j \in 1..Len(Get(node, "ranges").items) |->
                    SliceRange(node, <<FieldIndex(node.type, "ranges"), j>>)])
    ELSE One(node, "start") \o One(node, "end")

visit_field_access(node) == <<>>

visit_func_call_expr(node) == Each(node, "args")

visit_bin_op(node) ==
    One(node, "left") \o (IF Truthy(Get(node, "right")) THEN One(node, "right") ELSE <<>>)

visit_short_circuit_bin_op(node) == One(node, "left") \o One(node, "right")

visit_un_op(node) == One(node, "value")

visit_number(node) == <<>>

visit_string(node) == <<>>

visit_var(node) == <<>>

visit_bool(node) == <<>>

visit_null(node) == <<>>

visit_class_def(node) == <<>>

visit_new_object(node) == <<>>

visit_subroutine_def(node) == Each(node, "parameters") \o Each(node, "body")

visit_parameter(node) == <<>>

visit_length_function(node) ==
    IF Truthy(Get(node, "array")) /\ HasAccept(Get(node, "array"))
    THEN One(node, "array") ELSE <<>>

visit_ceil_function(node) == One(node, "expr")

visit_floor_function(node) == One(node, "expr")

visit_strlen_function(node) == One(node, "expr")

visit_concat_function(node) == One(node, "left") \o One(node, "right")

visit_substring_function(node) ==
    One(node, "string") \o One(node, "start") \o One(node, "length")

visit_new_graph(node) == <<>>

visit_graph_operation(node) == <<>>

visit_graph_traversal(node) == <<>>

visit_add_node_function(node) == One(node, "node")

visit_add_edge_function(node) == One(node, "from_node") \o One(node, "to_node")

visit_neighbors_function(node) == One(node, "node")

visit_array_var_decl(node) == <<>>

visit_object_var_decl(node) == <<>>

visit_graph_var_decl(node) == <<>>

\* self.<op>(node) on a DefaultASTVisitor.
DefaultVisit(op, node) ==
    CASE op = "visit_program" -> visit_program(node)
      [] op = "visit_comment" -> visit_comment(node)
      [] op = "visit_var_decl" -> visit_var_decl(node)
      [] op = "visit_assignment" -> visit_assignment(node)
      [] op = "visit_var_target" -> visit_var_target(node)
      [] op = "visit_array_target" -> visit_array_target(node)
      [] op = "visit_field_target" -> visit_field_target(node)
      [] op = "visit_for_loop" -> visit_for_loop(node)
      [] op = "visit_while_loop" -> visit_while_loop(node)
      [] op = "visit_repeat_until" -> visit_repeat_until(node)
      [] op = "visit_if_else" -> visit_if_else(node)
      [] op = "visit_call_stmt" -> visit_call_stmt(node)
      [] op = "visit_call_method" -> visit_call_method(node)
      [] op = "visit_return_stmt" -> visit_return_stmt(node)
      [] op = "visit_array_access" -> visit_array_access(node)
      [] op = "visit_array_slice" -> visit_array_slice(node)
      [] op = "visit_field_access" -> visit_field_access(node)
      [] op = "visit_func_call_expr" -> visit_func_call_expr(node)
      [] op = "visit_bin_op" -> visit_bin_op(node)
      [] op = "visit_short_circuit_bin_op" -> visit_short_circuit_bin_op(node)
      [] op = "visit_un_op" -> visit_un_op(node)
      [] op = "visit_number" -> visit_number(node)
      [] op = "visit_string" -> visit_string(node)
      [] op = "visit_var" -> visit_var(node)
      [] op = "visit_bool" -> visit_bool(node)
      [] op = "visit_null" -> visit_null(node)
      [] op = "visit_class_def" -> visit_class_def(node)
      [] op = "visit_new_object" -> visit_new_object(node)
      [] op = "visit_subroutine_def" -> visit_subroutine_def(node)
      [] op = "visit_parameter" -> visit_parameter(node)
      [] op = "visit_length_function" -> visit_length_function(node)
      [] op = "visit_ceil_function" -> visit_ceil_function(node)
      [] op = "visit_floor_function" -> visit_floor_function(node)
      [] op = "visit_strlen_function" -> visit_strlen_function(node)
      [] op = "visit_concat_function" -> visit_concat_function(node)
      [] op = "visit_substring_function" -> visit_substring_function(node)
      [] op = "visit_new_graph" -> visit_new_graph(node)
      [] op = "visit_graph_operation" -> visit_graph_operation(node)
      [] op = "visit_graph_traversal" -> visit_graph_traversal(node)
      [] op = "visit_add_node_function" -> visit_add_node_function(node)
      [] op = "visit_add_edge_function" -> visit_add_edge_function(node)
      [] op = "visit_neighbors_function" -> visit_neighbors_function(node)
      [] op = "visit_array_var_decl" -> visit_array_var_decl(node)
      [] op = "visit_object_var_decl" -> visit_object_var_decl(node)
      [] op = "visit_graph_var_decl" -> visit_graph_var_decl(node)

\* The two visitors traversals are run with: the reference traversal, and a
\* visitor that implements every operation of ASTVisitor by recording the
\* call and returning a result of its own.
Visitors == {"DefaultASTVisitor", "RecordingVisitor"}

\* The accept calls an operation of the visitor makes on the node's parts.
VisitCalls(visitor, op, node) ==
    IF visitor = "DefaultASTVisitor" THEN DefaultVisit(op, node) ELSE <<>>

\* The value an operation of the visitor returns.
VisitResult(visitor, op) ==
    IF visitor = "DefaultASTVisitor" THEN None ELSE Str(op)

\* An accept copied from the class above it without renaming the operation.
Dispatch_CopyPaste(type) ==
    IF type = "FloorFunction" THEN "visit_ceil_function" ELSE NodeAccept(type)

\* node.accept(visitor): the operation of the visitor that is called.
Dispatch(type) == NodeAccept(type)

(***************************************************************************)
(* The trees the traversals are run on: every class of the catalogue with  *)
(* its parts filled in, then statements nested in statements.              *)
(***************************************************************************)
Number(n) == Node("Number", <<NumV(n)>>)

Var(name) == Node("Var", <<Str(name)>>)

Assign(name, value) == Node("Assignment", <<Node("VarTarget", <<Str(name)>>), value>>)

Call(name, args) == Node("CallStmt", <<Str(name), List(args)>>)

Return(value) == Node("ReturnStmt", <<value>>)

IfElse(cond, then_branch, else_branch) ==
    Node("IfElse", <<cond, List(then_branch), List(else_branch)>>)

RepeatUntil(cond, body) == Node("RepeatUntil", <<cond, List(body)>>)

ForLoop(var, start, end, body) ==
    Node("ForLoop", <<var, start, end, List(body), BoolV(TRUE)>>)

LeafSamples == {
    Node("Comment", <<Str("c")>>),
    Number(1),
    Node("String", <<Str("s")>>),
    Var("x"),
    Node("Bool", <<BoolV(TRUE)>>),
    Node("Null", <<None>>),
    Node("VarTarget", <<Str("x")>>),
    Node("FieldTarget", <<Str("o"), Str("f")>>),
    Node("FieldAccess", <<Str("o"), Str("f")>>),
    Node("ClassDef", <<Str("C"), List(<<Str("a"), Str("b")>>)>>),
    Node("NewObject", <<Str("C")>>),
    Node("ObjectVarDecl", <<Str("C"), Str("o")>>),
    Node("GraphVarDecl", <<Str("g")>>),
    Node("NewGraph", <<>>)
}

ExpressionSamples == {
    Node("ArrayTarget", <<Str("a"), List(<<Number(1), Var("i")>>)>>),
    Node("ArrayAccess", <<Str("a"), List(<<Var("i"), Number(2)>>)>>),
    Node("ArrayAccess", <<Str("a"), Var("i")>>),
    Node("ArraySlice", <<Str("a"), List(<<Tuple(<<Number(1), Number(2)>>),
                                         Tuple(<<None, Var("j")>>),
                                         Tuple(<<Var("i"), None>>),
                                         Tuple(<<None, None>>)>>)>>),
    Node("CallMethod", <<Var("o"), Str("m"), List(<<Number(1), Number(2)>>)>>),
    Node("FuncCallExpr", <<Str("f"), List(<<Number(1), Var("x")>>)>>),
    Node("BinOp", <<Str("+"), Number(1), Number(2), BoolV(FALSE)>>),
    Node("ShortCircuitBinOp", <<Str("and"), Var("p"), Var("q")>>),
    Node("UnOp", <<Str("-"), Number(1)>>),
    Node("LengthFunction", <<Var("a")>>),
    Node("CeilFunction", <<Number(1)>>),
    Node("FloorFunction", <<Number(2)>>),
    Node("StrlenFunction", <<Var("s")>>),
    Node("ConcatFunction", <<Var("s"), Var("t")>>),
    Node("SubstringFunction", <<Var("s"), Number(1), Number(2)>>),
    Node("AddNodeFunction", <<Str("g"), Number(1)>>),
    Node("AddEdgeFunction", <<Str("g"), Number(1), Number(2)>>),
    Node("NeighborsFunction", <<Str("g"), Number(1)>>)
}

StatementSamples == {
    Node("VarDecl", <<List(<<Var("x"), Assign("y", Number(1))>>)>>),
    Node("ArrayVarDecl", <<Str("a"), List(<<Number(2), Var("n")>>)>>),
    Node("Parameter", <<Str("p"), Str("simple"), None, None>>),
    Node("Parameter", <<Str("a"), Str("array"), List(<<Var("n")>>), None>>),
    Node("SubroutineDef", <<Str("s"),
            List(<<Node("Parameter", <<Str("p"), Str("simple"), None, None>>)>>),
            List(<<Assign("x", Var("p")), Return(Var("x"))>>)>>),
    Node("GraphOperation", <<Str("g"), List(<<Number(1), Number(2)>>)>>),
    Node("GraphTraversal", <<Str("g"), Number(1), Number(2)>>),
    Assign("x", Number(1)),
    Call("f", <<Var("x"), Number(1)>>),
    Return(Number(1)),
    Return(None),
    Node("WhileLoop", <<Var("c"), List(<<Assign("x", Number(1)), Call("f", <<>>)>>)>>),
    RepeatUntil(Var("c"), <<Assign("x", Number(1)), Call("f", <<>>)>>),
    RepeatUntil(Var("c"), <<>>),
    IfElse(Var("c"), <<Assign("x", Number(1)), Call("f", <<>>)>>,
                     <<Assign("y", Number(2)), Return(Var("y"))>>),
    IfElse(Var("c"), <<Call("f", <<>>)>>, <<>>),
    ForLoop(Str("i"), Number(1), Number(3), <<Call("print", <<Var("i")>>), Assign("x", Var("i"))>>),
    ForLoop(None, Var("a"), Var("b"), <<Call("f", <<>>)>>)
}

ProgramSamples == {
    Node("Program", <<List(<<>>)>>),
    Node("Program", <<List(<<Assign("x", Number(1)), Call("f", <<Var("x")>>)>>)>>),
    Node("Program", <<List(<<
        ForLoop(Str("i"), Number(1), Number(2),
            <<IfElse(Var("c"), <<Return(Var("i"))>>, <<Call("g", <<>>)>>),
              RepeatUntil(Var("d"), <<Assign("x", Var("i"))>>)>>),
        Return(None)>>)>>),
    Node("Program", <<List(<<
        Node("VarDecl", <<List(<<Var("x")>>)>>),
        RepeatUntil(Node("BinOp", <<Str("<"), Var("x"), Number(3), BoolV(FALSE)>>),
            <<IfElse(Var("c"), <<Assign("x", Number(1))>>, <<Assign("x", Number(2))>>)>>)>>)>>),
    Node("Program", <<List(<<
        ForLoop(None, Var("a"), Var("b"), <<Return(None)>>),
        Return(Node("ArraySlice", <<Str("a"), List(<<Tuple(<<Var("i"), Var("j")>>),
                                                    Tuple(<<None, Var("j")>>),
                                                    Tuple(<<Var("i"), None>>),
                                                    Tuple(<<None, None>>),
                                                    Var("k")>>)>>))>>)>>)
}

SampleTrees == LeafSamples \cup ExpressionSamples \cup StatementSamples \cup ProgramSamples

(***************************************************************************)
(* Node metadata (node.py: SourcePosition, ASTMetadata, ASTNode).  A node  *)
(* object is its class and its metadata attribute: Missing when the        *)
(* instance has no such attribute, None, or an ASTMetadata.                *)
(***************************************************************************)
SourcePosition(line, column, end_line, end_column, filename) ==
    [tag |-> "pos", line |-> line, column |-> column,
     end_line |-> end_line, end_column |-> end_column, filename |-> filename]

\* ASTMetadata(): the defaults of the dataclass.
ASTMetadata ==
    [tag |-> "meta", position |-> None, complexity_hints |-> None,
     loop_depth |-> NumV(0), is_recursive |-> BoolV(FALSE), pattern_type |-> None]

\* The metadata attribute of a new instance.  The dataclass __init__ of a
\* node class sets the fields; ASTNode.__init__, which sets metadata, runs
\* only where a __post_init__ calls it: in Program.
NewNode(type) ==
    [type |-> type,
     metadata |-> IF type = "Program" THEN None ELSE Missing]

\* a or b
Or(a, b) == IF Truthy(a) THEN a ELSE b

\* ASTNode.set_position: how the call ends, and the node after it.
set_position(node, line, column, end_line, end_column, filename) ==
    IF node.metadata.tag = "missing"
    THEN [result |-> Raised(Exc("AttributeError", <<"object has no attribute 'metadata'">>, <<>>)),
          node |-> node]
    ELSE LET m == IF ~Truthy(node.metadata) THEN ASTMetadata ELSE node.metadata IN
         [result |-> Returned(None),
          node |-> [node EXCEPT !.metadata =
                       [m EXCEPT !.position = SourcePosition(line, column,
                            Or(end_line, line), Or(end_column, column), filename)]]]

\* ASTNode.get_position
get_position(node) ==
    IF node.metadata.tag = "missing"
    THEN Raised(Exc("AttributeError", <<"object has no attribute 'metadata'">>, <<>>))
    ELSE IF Truthy(node.metadata) THEN Returned(node.metadata.position)
    ELSE Returned(None)

MaxCoord == 1

Coords == [tag : {"num"}, n : 0..MaxCoord]

Filenames == [tag : {"str"}, s : {"main.txt"}]

\* The integer fields of SourcePosition.
PositionFields == {"line", "column", "end_line", "end_column"}


(***************************************************************************)
(* The inputs.  A source text is known by what the grammar engine and the  *)
(* transformer do with it; a path by what opening and decoding it does.    *)
(***************************************************************************)
Parsers == {"p1", "p2"}

TextIds == {"t1", "t2"}

BuildKinds == {"Program", "ParsingError", "ValidationError", "VisitError"}

Texts ==
    [id : TextIds, lark : {"UnexpectedInput"}, build : {"none"}]
    \cup [id : TextIds, lark : {"tree"}, build : BuildKinds]

PathNames == {"f1", "f2"}

OpenFailures == {"FileNotFoundError", "PermissionError", "UnicodeDecodeError", "ValueError",
                 "KeyboardInterrupt"}

Paths ==
    [name : PathNames, open : OpenFailures, content : {[id |-> "t1", lark |-> "tree", build |-> "Program"]}]
    \cup [name : PathNames, open : {"text"}, content : Texts]

\* The Program the transformer builds for a text.
ProgramOf(id) ==
    IF id = "t1"
    THEN Node("Program", <<List(<<Node("Assignment",
                 <<Node("VarTarget", <<Str("x")>>), Node("Number", <<NumV(1)>>)>>)>>)>>)
    ELSE Node("Program", <<List(<<Node("CallStmt",
                 <<Str("f"), List(<<Node("Var", <<Str("x")>>)>>)>>)>>)>>)

(***************************************************************************)
(* The collaborators of LanguageParser.                                    *)
(***************************************************************************)
\* open(file_path, "r", encoding="utf-8") and f.read()
OpenAndRead(p) ==
    CASE p.open = "text" -> Returned(p.content)
      [] p.open = "FileNotFoundError" ->
            Raised(Exc("FileNotFoundError", <<"[Errno 2] No such file or directory: ", p.name>>, <<>>))
      [] p.open = "PermissionError" ->
            Raised(Exc("PermissionError", <<"[Errno 13] Permission denied: ", p.name>>, <<>>))
      [] p.open = "UnicodeDecodeError" ->
            Raised(Exc("UnicodeDecodeError", <<"'utf-8' codec can't decode byte">>, <<>>))
      [] p.open = "KeyboardInterrupt" ->
            Raised(Exc("KeyboardInterrupt", <<>>, <<>>))
      [] OTHER ->
            Raised(Exc("ValueError", <<"embedded null byte">>, <<>>))

\* A reader whose IOError clause is written first.
read_file_IOErrorFirst(p) ==
    LET r == OpenAndRead(p) IN
    IF r.kind = "returned" THEN r
    ELSE LET e == r.exc[1] IN
         IF IsInstance(e.kind, "OSError")
         THEN Raised(Exc("ParsingError", <<"Error reading file ", p.name, ": ">> \o e.msg, <<e>>))
         ELSE IF IsInstance(e.kind, "UnicodeDecodeError")
         THEN Raised(Exc("ParsingError", <<"Error decoding file ", p.name, ": ">> \o e.msg, <<e>>))
         ELSE r

\* FileReader.read_file: the except clauses in the order they are written.
read_file(p) ==
    LET r == OpenAndRead(p) IN
    IF r.kind = "returned" THEN r
    ELSE LET e == r.exc[1] IN
         IF IsInstance(e.kind, "FileNotFoundError")
         THEN Raised(Exc("ParsingError", <<"File not found: ", p.name>>, <<e>>))
         ELSE IF IsInstance(e.kind, "OSError")
         THEN Raised(Exc("ParsingError", <<"Error reading file ", p.name, ": ">> \o e.msg, <<e>>))
         ELSE IF IsInstance(e.kind, "UnicodeDecodeError")
         THEN Raised(Exc("ParsingError", <<"Error decoding file ", p.name, ": ">> \o e.msg, <<e>>))
         ELSE r

\* LarkParser.parse: the parse tree, or the engine's own syntax error.
lark_parse(code) ==
    IF code.lark = "tree"
    THEN Returned([rule |-> "start", of |-> code])
    ELSE Raised(Exc("UnexpectedInput", <<"Unexpected token in ", code.id>>, <<>>))

\* ASTBuilder.transform: one Program, or a failure of a builder.
transform(tree) ==
    IF tree.of.build = "Program"
    THEN Returned(ProgramOf(tree.of.id))
    ELSE Raised(Exc(tree.of.build, <<"cannot build ", tree.of.id>>, <<>>))

\* An orchestrator class that builds one transformer when the class is
\* defined and hands it to every instance.
Components_SharedTransformer(i) ==
    [file_reader |-> [class |-> "FileReader", of |-> i],
     lark_parser |-> [class |-> "LarkParser", of |-> i],
     transformer |-> [class |-> "ASTBuilder", of |-> "LanguageParser"]]

\* LanguageParser.__init__: the collaborators instance i creates for itself.
Components(i) ==
    [file_reader |-> [class |-> "FileReader", of |-> i],
     lark_parser |-> [class |-> "LarkParser", of |-> i],
     transformer |-> [class |-> "ASTBuilder", of |-> i]]

TransformerObjects == {Components(i).transformer : i \in Parsers}

\* The statements of a Program.
StatementsOf(program) == program.fields[1].items

\* A builder that keeps the statements it has built on the instance, up to
\* two of them.
BuilderAfter_KeepsStatements(b, tree) ==
    IF transform(tree).kind = "returned" /\ Len(b) < 2
    THEN b \o StatementsOf(transform(tree).value[1])
    ELSE b

\* What a builder object holds over from a transform call into the next
\* one: b before the call, nothing added by it.
BuilderAfter(b, tree) == b

\* self._transformer.transform(parse_tree) on a builder object holding b:
\* what is held over comes out in front of the statements of the text.
BuilderTransform(b, tree) ==
    LET r == transform(tree) IN
    IF r.kind = "returned" /\ b # <<>>
    THEN Returned(Node("Program", <<List(b \o StatementsOf(r.value[1]))>>))
    ELSE r

(***************************************************************************)
(* LanguageParser.parse and parse_file: the except clauses.                *)
(***************************************************************************)
\* A parse that swallows the failure it catches.
ParseHandler_Swallow(e) ==
    IF IsInstance(e.kind, "ParsingError")
    THEN Returned(None)
    ELSE Raised(e)

\* parse, line 34-35: what the try statement does with an exception e.
ParseHandler(e) ==
    IF IsInstance(e.kind, "ParsingError")
    THEN Raised(Exc("ParsingError", <<"Error parsing code: ">> \o e.msg, <<e>>))
    ELSE Raised(e)

\* A parse_file with one clause, except Exception, that wraps everything.
ParseFileHandler_WrapAll(e, p) ==
    IF IsInstance(e.kind, "Exception")
    THEN Raised(Exc("ParsingError", <<"Error parsing file '", p.name, "': ">> \o e.msg, <<e>>))
    ELSE Raised(e)

\* A parse_file whose second clause raises without "from e".
ParseFileHandler_NoCause(e, p) ==
    IF IsInstance(e.kind, "ParsingError")
    THEN Raised(e)
    ELSE IF IsInstance(e.kind, "Exception")
    THEN Raised(Exc("ParsingError", <<"Error parsing file '", p.name, "': ">> \o e.msg, <<>>))
    ELSE Raised(e)

\* parse_file, line 44-47.
ParseFileHandler(e, p) ==
    IF IsInstance(e.kind, "ParsingError")
    THEN Raised(e)
    ELSE IF IsInstance(e.kind, "Exception")
    THEN Raised(Exc("ParsingError", <<"Error parsing file '", p.name, "': ">> \o e.msg, <<e>>))
    ELSE Raised(e)

\* A parse_file that calls parse and forgets to return its value.
ParseFileReturn_Dropped(r) == Returned(None)

\* parse_file, line 43: return self.parse(code)
ParseFileReturn(r) == r

\* parse(c) run from start to end with nothing else running, on an instance
\* just built.
ParseAlone(c) ==
    LET r == lark_parse(c) IN
    IF r.kind = "raised" THEN ParseHandler(r.exc[1])
    ELSE LET t == BuilderTransform(<<>>, r.value[1]) IN
         IF t.kind = "raised" THEN ParseHandler(t.exc[1]) ELSE t

\* parse_file(p) run the same way.
ParseFileAlone(p) ==
    LET r == read_file(p) IN
    IF r.kind = "raised" THEN ParseFileHandler(r.exc[1], p)
    ELSE LET q == ParseAlone(r.value[1]) IN
         IF q.kind = "raised" THEN ParseFileHandler(q.exc[1], p)
         ELSE ParseFileReturn(q)

VARIABLES
    pc,         \* per parser: where its current call stands
    entry,      \* per parser: the entry point the caller invoked
    path,       \* per parser: <<file_path>> of a parse_file call
    code,       \* per parser: <<code>> of the running parse call
    tree,       \* per parser: <<parse_tree>>
    exc,        \* per parser: <<the exception in flight>>
    outcome,    \* per parser: <<how the call ended>>
    origin,     \* per parser: <<the exception as it left the collaborator>>
    readExit,   \* per parser: <<how read_file ended>>
    parseExit,  \* per parser: <<how the parse call ended>>
    parseArgs,  \* per parser: the arguments parse was invoked with, in order
    builder,    \* per transformer object: what it holds over between calls
    earlier     \* <<the first parse call that ended: its text, its result,
                \*   its instance, and whether its caller has moved on>>

parserVars == <<pc, entry, path, code, tree, exc, outcome, origin, readExit, parseExit,
                parseArgs, builder, earlier>>

VARIABLES
    vpc,        \* where the traversal stands
    root,       \* <<the node accept was called on>>
    visitor,    \* the visitor it was called with
    stack,      \* the running visit operations, innermost last
    log,        \* the operations called on the visitor, in order
    vret        \* <<how the traversal ended>>

visitorVars == <<vpc, root, visitor, stack, log, vret>>

VARIABLES
    nd,         \* <<the node object under construction and annotation>>
    last,       \* the last operation on it and how it ended
    written,    \* whether a set_position on it has succeeded
    attached    \* <<the position the first successful set_position stored>>

nodeVars == <<nd, last, written, attached>>

VARIABLES
    cpc,        \* where the try statement stands
    thrown,     \* the class of the exception its body raised
    clauses,    \* the classes its except clauses name, in order
    caughtBy    \* the clause that handled the exception, 0 for none

catchVars == <<cpc, thrown, clauses, caughtBy>>

VARIABLES
    chpc,       \* where the process_chain call stands
    items,      \* the flat chain it was called with
    acc,        \* <<the node folded so far>>
    at,         \* the position in items of the next operator
    chret       \* <<how the call ended>>

chainVars == <<chpc, items, acc, at, chret>>

vars == <<parserVars, visitorVars, nodeVars, catchVars, chainVars>>

Idle == [i \in Parsers |-> <<>>]

ParserInit ==
    /\ pc = [i \in Parsers |-> "idle"]
    /\ entry = [i \in Parsers |-> "none"]
    /\ path = Idle
    /\ code = Idle
    /\ tree = Idle
    /\ exc = Idle
    /\ outcome = Idle
    /\ origin = Idle
    /\ readExit = Idle
    /\ parseExit = Idle
    /\ parseArgs = Idle
    /\ builder = [o \in TransformerObjects |-> <<>>]
    /\ earlier = <<>>

\* The caller invokes parse(c).
CallParse(i, c) ==
    /\ pc[i] = "idle"
    /\ pc' = [pc EXCEPT ![i] = "parse_lark"]
    /\ entry' = [entry EXCEPT ![i] = "parse"]
    /\ code' = [code EXCEPT ![i] = <<c>>]
    /\ parseArgs' = [parseArgs EXCEPT ![i] = <<c>>]
    /\ UNCHANGED <<path, tree, exc, outcome, origin, readExit, parseExit>>
    /\ UNCHANGED <<builder, earlier>>
    /\ UNCHANGED <<visitorVars, nodeVars, catchVars, chainVars>>

\* The caller invokes parse_file(p).
CallParseFile(i, p) ==
    /\ pc[i] = "idle"
    /\ pc' = [pc EXCEPT ![i] = "pf_read"]
    /\ entry' = [entry EXCEPT ![i] = "parse_file"]
    /\ path' = [path EXCEPT ![i] = <<p>>]
    /\ UNCHANGED <<code, tree, exc, outcome, origin, readExit, parseExit, parseArgs>>
    /\ UNCHANGED <<builder, earlier>>
    /\ UNCHANGED <<visitorVars, nodeVars, catchVars, chainVars>>

\* parse_file, line 42-43: read the file, then invoke parse with the text.
ReadFile(i) ==
    /\ pc[i] = "pf_read"
    /\ LET r == read_file(path[i][1]) IN
       /\ readExit' = [readExit EXCEPT ![i] = <<r>>]
       /\ IF r.kind = "returned"
          THEN /\ pc' = [pc EXCEPT ![i] = "parse_lark"]
               /\ code' = [code EXCEPT ![i] = r.value]
               /\ parseArgs' = [parseArgs EXCEPT ![i] = Append(@, r.value[1])]
               /\ UNCHANGED <<exc, origin>>
          ELSE /\ pc' = [pc EXCEPT ![i] = "pf_except"]
               /\ exc' = [exc EXCEPT ![i] = r.exc]
               /\ origin' = [origin EXCEPT ![i] = r.exc]
               /\ UNCHANGED <<code, parseArgs>>
    /\ UNCHANGED <<entry, path, tree, outcome, parseExit>>
    /\ UNCHANGED <<builder, earlier>>
    /\ UNCHANGED <<visitorVars, nodeVars, catchVars, chainVars>>

\* parse, line 32: parse_tree = self._lark_parser.parse(code)
LarkStep(i) ==
    /\ pc[i] = "parse_lark"
    /\ LET r == lark_parse(code[i][1]) IN
       IF r.kind = "returned"
       THEN /\ pc' = [pc EXCEPT ![i] = "parse_transform"]
            /\ tree' = [tree EXCEPT ![i] = r.value]
            /\ UNCHANGED <<exc, origin>>
       ELSE /\ pc' = [pc EXCEPT ![i] = "parse_except"]
            /\ exc' = [exc EXCEPT ![i] = r.exc]
            /\ origin' = [origin EXCEPT ![i] = r.exc]
            /\ UNCHANGED tree
    /\ UNCHANGED <<entry, path, code, outcome, readExit, parseExit, parseArgs>>
    /\ UNCHANGED <<builder, earlier>>
    /\ UNCHANGED <<visitorVars, nodeVars, catchVars, chainVars>>

\* parse leaves with r: to the caller, or back into parse_file's try block.
ParseLeaves(i, r) ==
    /\ parseExit' = [parseExit EXCEPT ![i] = <<r>>]
    /\ earlier' = IF earlier = <<>>
                  THEN <<[code |-> code[i][1], result |-> r, by |-> i, left |-> FALSE]>>
                  ELSE earlier
    /\ IF entry[i] = "parse"
       THEN /\ pc' = [pc EXCEPT ![i] = "done"]
            /\ outcome' = [outcome EXCEPT ![i] = <<r>>]
            /\ exc' = [exc EXCEPT ![i] = r.exc]
       ELSE /\ pc' = [pc EXCEPT ![i] = IF r.kind = "returned" THEN "pf_return" ELSE "pf_except"]
            /\ exc' = [exc EXCEPT ![i] = r.exc]
            /\ UNCHANGED outcome

\* parse, line 33: return self._transformer.transform(parse_tree)
TransformStep(i) ==
    /\ pc[i] = "parse_transform"
    /\ LET o == Components(i).transformer
           r == BuilderTransform(builder[o], tree[i][1]) IN
       /\ builder' = [builder EXCEPT ![o] = BuilderAfter(@, tree[i][1])]
       /\ IF r.kind = "returned"
          THEN /\ ParseLeaves(i, r)
               /\ UNCHANGED origin
          ELSE /\ pc' = [pc EXCEPT ![i] = "parse_except"]
               /\ exc' = [exc EXCEPT ![i] = r.exc]
               /\ origin' = [origin EXCEPT ![i] = r.exc]
               /\ UNCHANGED <<outcome, parseExit, earlier>>
    /\ UNCHANGED <<entry, path, code, tree, readExit, parseArgs>>
    /\ UNCHANGED <<visitorVars, nodeVars, catchVars, chainVars>>

\* parse, line 34-35: the except clause, or none matching.
ParseExcept(i) ==
    /\ pc[i] = "parse_except"
    /\ ParseLeaves(i, ParseHandler(exc[i][1]))
    /\ UNCHANGED <<entry, path, code, tree, origin, readExit, parseArgs, builder>>
    /\ UNCHANGED <<visitorVars, nodeVars, catchVars, chainVars>>

\* parse_file, line 43: the value of parse is returned.
ParseFileReturns(i) ==
    /\ pc[i] = "pf_return"
    /\ pc' = [pc EXCEPT ![i] = "done"]
    /\ outcome' = [outcome EXCEPT ![i] = <<ParseFileReturn(parseExit[i][1])>>]
    /\ UNCHANGED <<entry, path, code, tree, exc, origin, readExit, parseExit, parseArgs>>
    /\ UNCHANGED <<builder, earlier>>
    /\ UNCHANGED <<visitorVars, nodeVars, catchVars, chainVars>>

\* parse_file, line 44-47: the except clauses.
ParseFileExcept(i) ==
    /\ pc[i] = "pf_except"
    /\ pc' = [pc EXCEPT ![i] = "done"]
    /\ outcome' = [outcome EXCEPT ![i] = <<ParseFileHandler(exc[i][1], path[i][1])>>]
    /\ UNCHANGED <<entry, path, code, tree, exc, origin, readExit, parseExit, parseArgs>>
    /\ UNCHANGED <<builder, earlier>>
    /\ UNCHANGED <<visitorVars, nodeVars, catchVars, chainVars>>

\* The caller has the result; the parser is ready for its next call.
Finish(i) ==
    /\ pc[i] = "done"
    /\ pc' = [pc EXCEPT ![i] = "idle"]
    /\ entry' = [entry EXCEPT ![i] = "none"]
    /\ path' = [path EXCEPT ![i] = <<>>]
    /\ code' = [code EXCEPT ![i] = <<>>]
    /\ tree' = [tree EXCEPT ![i] = <<>>]
    /\ exc' = [exc EXCEPT ![i] = <<>>]
    /\ outcome' = [outcome EXCEPT ![i] = <<>>]
    /\ origin' = [origin EXCEPT ![i] = <<>>]
    /\ readExit' = [readExit EXCEPT ![i] = <<>>]
    /\ parseExit' = [parseExit EXCEPT ![i] = <<>>]
    /\ parseArgs' = [parseArgs EXCEPT ![i] = <<>>]
    /\ earlier' = IF earlier # <<>> /\ earlier[1].by = i
                  THEN <<[earlier[1] EXCEPT !.left = TRUE]>>
                  ELSE earlier
    /\ UNCHANGED builder
    /\ UNCHANGED <<visitorVars, nodeVars, catchVars, chainVars>>

NextParser ==
    \/ \E i \in Parsers, c \in Texts : CallParse(i, c)
    \/ \E i \in Parsers, p \in Paths : CallParseFile(i, p)
    \/ \E i \in Parsers : ReadFile(i)
    \/ \E i \in Parsers : LarkStep(i)
    \/ \E i \in Parsers : TransformStep(i)
    \/ \E i \in Parsers : ParseExcept(i)
    \/ \E i \in Parsers : ParseFileReturns(i)
    \/ \E i \in Parsers : ParseFileExcept(i)
    \/ \E i \in Parsers : Finish(i)

(***************************************************************************)
(* A traversal: root.accept(visitor), run one call at a time.  A frame is  *)
(* one running visit operation: the node it visits (as a path from the     *)
(* root) and the accept calls it still has to make.                        *)
(***************************************************************************)
VisitInit ==
    /\ vpc = "idle"
    /\ root = <<>>
    /\ visitor = "none"
    /\ stack = <<>>
    /\ log = <<>>
    /\ vret = <<>>

Top == stack[Len(stack)]

\* The caller calls t.accept(v).
BeginVisit(t, v) ==
    /\ vpc = "idle"
    /\ vpc' = "running"
    /\ root' = <<t>>
    /\ visitor' = v
    /\ stack' = <<[path |-> <<>>, op |-> "caller", todo |-> << <<>> >>]>>
    /\ log' = <<>>
    /\ vret' = <<>>
    /\ UNCHANGED <<parserVars, nodeVars, catchVars, chainVars>>

\* The running operation makes its next call x.accept(self): the accept of
\* x's class calls its one operation of the visitor, with x; a value with no
\* accept fails the traversal.
AcceptCall ==
    /\ vpc = "running"
    /\ Top.todo # <<>>
    /\ LET p == Top.path \o Head(Top.todo)
           x == ValueAt(root[1], p)
           rest == [stack EXCEPT ![Len(stack)].todo = Tail(@)]
       IN  IF HasAccept(x)
           THEN /\ log' = Append(log, [op |-> Dispatch(x.type), node |-> x, path |-> p,
                                       caller |-> Top.path, by |-> Top.op])
                /\ stack' = Append(rest, [path |-> p, op |-> Dispatch(x.type),
                                          todo |-> VisitCalls(visitor, Dispatch(x.type), x)])
                /\ UNCHANGED <<vpc, vret>>
           ELSE /\ vpc' = "done"
                /\ vret' = <<Raised(Exc("AttributeError", <<"object has no attribute 'accept'">>, <<>>))>>
                /\ stack' = <<>>
                /\ UNCHANGED log
    /\ UNCHANGED <<root, visitor>>
    /\ UNCHANGED <<parserVars, nodeVars, catchVars, chainVars>>

\* The running operation has made its calls and returns; accept returns its
\* result to the operation that called it, or to the caller of the traversal.
VisitReturn ==
    /\ vpc = "running"
    /\ Len(stack) > 1
    /\ Top.todo = <<>>
    /\ IF Len(stack) = 2
       THEN /\ vpc' = "done"
            /\ vret' = <<Returned(VisitResult(visitor, Top.op))>>
            /\ stack' = <<>>
       ELSE /\ stack' = SubSeq(stack, 1, Len(stack) - 1)
            /\ UNCHANGED <<vpc, vret>>
    /\ UNCHANGED <<root, visitor, log>>
    /\ UNCHANGED <<parserVars, nodeVars, catchVars, chainVars>>

\* The caller has the traversal's result.
EndVisit ==
    /\ vpc = "done"
    /\ vpc' = "idle"
    /\ root' = <<>>
    /\ visitor' = "none"
    /\ stack' = <<>>
    /\ log' = <<>>
    /\ vret' = <<>>
    /\ UNCHANGED <<parserVars, nodeVars, catchVars, chainVars>>

NextVisitor ==
    \/ \E t \in SampleTrees, v \in Visitors : BeginVisit(t, v)
    \/ AcceptCall
    \/ VisitReturn
    \/ EndVisit

NodeInit ==
    /\ nd = <<>>
    /\ last = [op |-> "none", args |-> <<>>, result |-> <<>>, first |-> FALSE]
    /\ written = FALSE
    /\ attached = <<>>

\* A node of the class is constructed.
Construct(type) ==
    /\ nd = <<>>
    /\ nd' = <<NewNode(type)>>
    /\ last' = [op |-> "construct", args |-> <<>>, result |-> <<>>, first |-> FALSE]
    /\ written' = FALSE
    /\ attached' = <<>>
    /\ UNCHANGED <<parserVars, visitorVars, catchVars, chainVars>>

\* node.get_position()
GetPosition ==
    /\ nd # <<>>
    /\ last' = [op |-> "get_position", args |-> <<>>,
                result |-> <<get_position(nd[1])>>, first |-> ~written]
    /\ UNCHANGED <<nd, written, attached>>
    /\ UNCHANGED <<parserVars, visitorVars, catchVars, chainVars>>

\* node.set_position(line, column, end_line, end_column, filename)
SetPosition(line, column, end_line, end_column, filename) ==
    /\ nd # <<>>
    /\ LET r == set_position(nd[1], line, column, end_line, end_column, filename) IN
       /\ nd' = <<r.node>>
       /\ last' = [op |-> "set_position",
                   args |-> <<line, column, end_line, end_column, filename>>,
                   result |-> <<r.result>>, first |-> ~written]
       /\ written' = (written \/ r.result.kind = "returned")
       /\ attached' = IF attached = <<>> /\ r.result.kind = "returned"
                      THEN <<r.node.metadata.position>> ELSE attached
    /\ UNCHANGED <<parserVars, visitorVars, catchVars, chainVars>>

\* node.get_position().<field> = value: SourcePosition is a dataclass that
\* is not frozen, and get_position hands out the stored object itself.
WritePositionField(field, value) ==
    /\ nd # <<>>
    /\ get_position(nd[1]).kind = "returned"
    /\ get_position(nd[1]).value[1].tag = "pos"
    /\ nd' = <<[nd[1] EXCEPT !.metadata.position[field] = value]>>
    /\ last' = [op |-> "write_field", args |-> <<Str(field), value>>,
                result |-> <<Returned(None)>>, first |-> FALSE]
    /\ UNCHANGED <<written, attached>>
    /\ UNCHANGED <<parserVars, visitorVars, catchVars, chainVars>>

\* The node is dropped.
Discard ==
    /\ nd # <<>>
    /\ nd' = <<>>
    /\ last' = [op |-> "none", args |-> <<>>, result |-> <<>>, first |-> FALSE]
    /\ written' = FALSE
    /\ attached' = <<>>
    /\ UNCHANGED <<parserVars, visitorVars, catchVars, chainVars>>

NextNode ==
    \/ \E type \in NodeKinds : Construct(type)
    \/ GetPosition
    \/ \E line, column \in Coords :
         \E end_line, end_column \in {None} \cup Coords :
           \E filename \in {None} \cup Filenames :
             SetPosition(line, column, end_line, end_column, filename)
    \/ \E field \in PositionFields : \E value \in Coords : WritePositionField(field, value)
    \/ Discard

(***************************************************************************)
(* A try statement around code that raises: which except clause, if any,   *)
(* handles an exception of each class of exception.py and of the classes   *)
(* the collaborators raise.                                                *)
(***************************************************************************)
MaxClauses == 2

RaisedKinds == {"LanguageError", "ParsingError", "ValidationError",
                "FileNotFoundError", "PermissionError", "UnicodeDecodeError",
                "ValueError", "UnexpectedInput", "VisitError",
                "AttributeError", "KeyboardInterrupt"}

HandlerClasses == {"LanguageError", "ParsingError", "ValidationError",
                   "OSError", "Exception"}

ClauseLists == UNION {[1..n -> HandlerClasses] : n \in 1..MaxClauses}

CatchInit ==
    /\ cpc = "idle"
    /\ thrown = "none"
    /\ clauses = <<>>
    /\ caughtBy = 0

\* The body of a try statement with these except clauses raises.
RaiseInTry(kind, cls) ==
    /\ cpc = "idle"
    /\ cpc' = "raised"
    /\ thrown' = kind
    /\ clauses' = cls
    /\ UNCHANGED caughtBy
    /\ UNCHANGED <<parserVars, visitorVars, nodeVars, chainVars>>

\* The except clauses are tried in order.
MatchClauses ==
    /\ cpc = "raised"
    /\ cpc' = "tried"
    /\ caughtBy' = FirstMatch(thrown, clauses)
    /\ UNCHANGED <<thrown, clauses>>
    /\ UNCHANGED <<parserVars, visitorVars, nodeVars, chainVars>>

\* The statement is left.
LeaveTry ==
    /\ cpc = "tried"
    /\ cpc' = "idle"
    /\ thrown' = "none"
    /\ clauses' = <<>>
    /\ caughtBy' = 0
    /\ UNCHANGED <<parserVars, visitorVars, nodeVars, chainVars>>

NextCatch ==
    \/ \E kind \in RaisedKinds : \E cls \in ClauseLists : RaiseInTry(kind, cls)
    \/ MatchClauses
    \/ LeaveTry

(***************************************************************************)
(* The binary operation builder (interfaces/binary_operation_handler.py).  *)
(* create_binary_operation builds one binary node; process_chain folds a   *)
(* flat chain operand, op, operand, op, operand, ... from the left.        *)
(***************************************************************************)
MaxOperands == 3

ChainOperands == {Var("a"), Number(1)}

ChainOperators == {Str("+"), Str("*"), Str("and")}

RECURSIVE ChainsOf(_)
ChainsOf(n) ==
    IF n = 1 THEN {<<a>> : a \in ChainOperands}
    ELSE {c \o <<o, a>> : c \in ChainsOf(n - 1), o \in ChainOperators, a \in ChainOperands}

Chains == UNION {ChainsOf(n) : n \in 1..MaxOperands}

\* create_binary_operation(op, left, right): one binary node, the dedicated
\* short-circuit node for the logical operators.
create_binary_operation(op, left, right) ==
    IF op \in {Str("and"), Str("or")}
    THEN Node("ShortCircuitBinOp", <<op, left, right>>)
    ELSE Node("BinOp", <<op, left, right, BoolV(FALSE)>>)

\* A fold that puts the node built so far on the right.
FoldOnce_RightNested(sofar, op, operand) == create_binary_operation(op, operand, sofar)

\* One fold: the node built so far becomes the left operand.
FoldOnce(sofar, op, operand) == create_binary_operation(op, sofar, operand)

RECURSIVE FoldFrom(_, _, _)
FoldFrom(sofar, chain, k) ==
    IF k > Len(chain) THEN sofar
    ELSE FoldFrom(FoldOnce(sofar, chain[k], chain[k + 1]), chain, k + 2)

\* process_chain(items): the first operand, then one fold for each operator
\* and the operand after it.
process_chain(chain) == FoldFrom(chain[1], chain, 2)

ChainInit ==
    /\ chpc = "idle"
    /\ items = <<>>
    /\ acc = <<>>
    /\ at = 0
    /\ chret = <<>>

\* process_chain(chain) is called: the first operand is what is built so far.
CallProcessChain(chain) ==
    /\ chpc = "idle"
    /\ chpc' = "fold"
    /\ items' = chain
    /\ acc' = <<chain[1]>>
    /\ at' = 2
    /\ UNCHANGED chret
    /\ UNCHANGED <<parserVars, visitorVars, nodeVars, catchVars>>

\* The next operator and the operand after it are folded in.
FoldStep ==
    /\ chpc = "fold"
    /\ at < Len(items)
    /\ acc' = <<FoldOnce(acc[1], items[at], items[at + 1])>>
    /\ at' = at + 2
    /\ UNCHANGED <<chpc, items, chret>>
    /\ UNCHANGED <<parserVars, visitorVars, nodeVars, catchVars>>

\* The chain is exhausted: what was built is returned.
ChainReturn ==
    /\ chpc = "fold"
    /\ at > Len(items)
    /\ chpc' = "done"
    /\ chret' = <<Returned(acc[1])>>
    /\ UNCHANGED <<items, acc, at>>
    /\ UNCHANGED <<parserVars, visitorVars, nodeVars, catchVars>>

\* The caller has the result.
ChainFinish ==
    /\ chpc = "done"
    /\ chpc' = "idle"
    /\ items' = <<>>
    /\ acc' = <<>>
    /\ at' = 0
    /\ chret' = <<>>
    /\ UNCHANGED <<parserVars, visitorVars, nodeVars, catchVars>>

NextChain ==
    \/ \E chain \in Chains : CallProcessChain(chain)
    \/ FoldStep
    \/ ChainReturn
    \/ ChainFinish

(***************************************************************************)
(* The specifications: the orchestrator's calls, the traversals, the life  *)
(* of one node object, a try statement, and the folding of a chain.        *)
(***************************************************************************)
Init == ParserInit /\ VisitInit /\ NodeInit /\ CatchInit /\ ChainInit

SpecParser == Init /\ [][NextParser]_vars

SpecVisitor == Init /\ [][NextVisitor]_vars

SpecNode == Init /\ [][NextNode]_vars

SpecCatch == Init /\ [][NextCatch]_vars

SpecChain == Init /\ [][NextChain]_vars

(***************************************************************************)
(* The orchestrator's claims, checked under SpecParser.                    *)
(***************************************************************************)
IsProgram(v) == v.tag = "node" /\ v.type = "Program"

FailedWith(x, class) ==
    /\ x # <<>>
    /\ x[1].kind = "raised"
    /\ IsInstance(x[1].exc[1].kind, class)

\* C1: every failure of parse(text) reaches the caller as a ParsingError,
\* whether the grammar engine or the transformation raised it.
C1_ParseFailsOnlyWithParsingError ==
    \A i \in Parsers :
        (pc[i] = "done" /\ entry[i] = "parse" /\ outcome[i][1].kind = "raised")
            => outcome[i][1].exc[1].kind = "ParsingError"

\* C2: when the failure reaching parse is already a ParsingError, the caller
\* receives that very error: same message, no prefix, nothing nested.
C2_ParseReraisesParsingErrorUnchanged ==
    \A i \in Parsers :
        (pc[i] = "done" /\ entry[i] = "parse"
            /\ origin[i] # <<>> /\ origin[i][1].kind = "ParsingError")
            => outcome[i][1] = Raised(origin[i][1])

\* C3: a ParsingError that leaves the file reader or the delegated parse call
\* reaches the caller of parse_file as the identical error.
C3_ParseFileNeverWrapsParsingError ==
    \A i \in Parsers :
        (pc[i] = "done" /\ entry[i] = "parse_file")
            => /\ FailedWith(readExit[i], "ParsingError") => outcome[i][1] = readExit[i][1]
               /\ FailedWith(parseExit[i], "ParsingError") => outcome[i][1] = parseExit[i][1]

C3_Witness ==
    \E i, j \in Parsers :
        /\ pc[i] = "done" /\ entry[i] = "parse_file" /\ FailedWith(readExit[i], "ParsingError")
        /\ pc[j] = "done" /\ entry[j] = "parse_file" /\ FailedWith(parseExit[j], "ParsingError")

\* C4: parse_file on a path that does not exist fails with a ParsingError
\* whose message says the file was not found and names the path.
C4_MissingFileIsParsingError ==
    \A i \in Parsers :
        (pc[i] = "done" /\ entry[i] = "parse_file" /\ path[i][1].open = "FileNotFoundError")
            => /\ outcome[i][1].kind = "raised"
               /\ outcome[i][1].exc[1].kind = "ParsingError"
               /\ outcome[i][1].exc[1].msg = <<"File not found: ", path[i][1].name>>

C4_Witness ==
    \E i \in Parsers :
        /\ pc[i] = "done" /\ entry[i] = "parse_file"
        /\ path[i][1].open = "FileNotFoundError"
        /\ outcome[i][1].kind = "raised"

\* C5: a call of parse or parse_file either returns one Program or raises; a
\* call that met a failure in reading, in the grammar engine or in the
\* transformation returns nothing.
C5_AllOrNothing ==
    \A i \in Parsers :
        pc[i] = "done"
            => /\ outcome[i][1].kind \in {"returned", "raised"}
               /\ outcome[i][1].kind = "returned"
                    => /\ origin[i] = <<>>
                       /\ IsProgram(outcome[i][1].value[1])
               /\ origin[i] # <<>> => outcome[i][1].kind = "raised"

C5_Witness ==
    \E i, j \in Parsers :
        /\ pc[i] = "done" /\ entry[i] = "parse_file" /\ outcome[i][1].kind = "returned"
        /\ pc[j] = "done" /\ entry[j] = "parse" /\ origin[j] # <<>>
        /\ origin[j][1].kind = "ParsingError"

SameResult(a, b) ==
    /\ a.kind = "returned" <=> b.kind = "returned"
    /\ a.kind = "returned" =>
          /\ a.value[1].tag = b.value[1].tag
          /\ a.value[1] = b.value[1]

\* C6: for a readable file with content t, parse_file calls parse exactly
\* once, with t, and returns a Program exactly when parse(t) does: the one
\* parse returned.
C6_OneTransformationPath ==
    \A i \in Parsers :
        (pc[i] = "done" /\ entry[i] = "parse_file" /\ path[i][1].open = "text")
            => /\ parseArgs[i] = <<path[i][1].content>>
               /\ parseExit[i] # <<>>
               /\ SameResult(outcome[i][1], parseExit[i][1])
               /\ \A j \in Parsers :
                    (pc[j] = "done" /\ entry[j] = "parse" /\ code[j] = <<path[i][1].content>>)
                        => SameResult(outcome[i][1], outcome[j][1])

C6_Witness ==
    \E i, j \in Parsers :
        /\ pc[i] = "done" /\ entry[i] = "parse_file" /\ path[i][1].open = "text"
        /\ outcome[i][1].kind = "returned"
        /\ pc[j] = "done" /\ entry[j] = "parse" /\ code[j] = <<path[i][1].content>>

(***************************************************************************)
(* The claims about dispatch and traversal, checked under SpecVisitor.     *)
(***************************************************************************)
Traversed == vpc = "done" /\ vret[1].kind = "returned"

\* C7: accept on a node of any class calls exactly one operation of the
\* visitor, once, with the node itself, and returns that operation's result;
\* the operation is the one ASTVisitor declares for that class, and no two
\* classes dispatch to the same operation.
C7_AcceptCallsTheMatchingOperationOnce ==
    /\ \A j \in 1..Len(log) :
          /\ log[j].op \in VisitorOps
          /\ VisitorParam(log[j].op) = log[j].node.type
          /\ log[j].node = ValueAt(root[1], log[j].path)
    /\ \A k \in 2..Len(stack) :
          /\ Cardinality({j \in 1..Len(log) : log[j].path = stack[k].path}) = 1
          /\ \A j \in 1..Len(log) : log[j].path = stack[k].path => log[j].op = stack[k].op
    /\ \A k1, k2 \in NodeKinds : Dispatch(k1) = Dispatch(k2) => k1 = k2
    /\ Traversed =>
          /\ Len(log) >= 1
          /\ log[1].path = <<>>
          /\ vret[1] = Returned(VisitResult(visitor, log[1].op))
          /\ visitor = "RecordingVisitor" => Len(log) = 1

C7_Witness ==
    /\ Traversed
    /\ visitor = "RecordingVisitor"
    /\ root[1].type = "FloorFunction"
    /\ log = <<[op |-> "visit_floor_function", node |-> root[1], path |-> <<>>,
                caller |-> <<>>, by |-> "caller"]>>
    /\ {t.type : t \in SampleTrees} = NodeKinds

\* The accept calls the operation visiting the node at path p made, in order.
CallsFrom(p) ==
    LET made == SelectSeq(log, LAMBDA e : e.caller = p /\ e.by # "caller")
    IN  [j \in 1..Len(made) |-> made[j].path]

\* The part of the node at p held in the field called name.
PartAt(p, name) == p \o <<FieldIndex(ValueAt(root[1], p).type, name)>>

\* The items of the list that field holds, in list order.
ItemsAt(p, name) ==
    [j \in 1..Len(ValueAt(root[1], PartAt(p, name)).items) |-> PartAt(p, name) \o <<j>>]

\* C8: DefaultASTVisitor visits, for IfElse, the condition, then the
\* then-branch statements in list order, then the else-branch statements in
\* list order; for RepeatUntil the body statements in list order, then the
\* condition; for ForLoop the start bound, the end bound, then the body
\* statements in list order.
C8_TraversalOrder ==
    (Traversed /\ visitor = "DefaultASTVisitor") =>
        \A j \in 1..Len(log) :
            LET p == log[j].path IN
            /\ log[j].node.type = "IfElse" =>
                  CallsFrom(p) = <<PartAt(p, "cond")>> \o ItemsAt(p, "then_branch")
                                    \o ItemsAt(p, "else_branch")
            /\ log[j].node.type = "RepeatUntil" =>
                  CallsFrom(p) = ItemsAt(p, "body") \o <<PartAt(p, "cond")>>
            /\ log[j].node.type = "ForLoop" =>
                  CallsFrom(p) = <<PartAt(p, "start"), PartAt(p, "end")>> \o ItemsAt(p, "body")

C8_Witness ==
    /\ Traversed
    /\ visitor = "DefaultASTVisitor"
    /\ \E i, r, f \in 1..Len(log) :
          /\ log[i].node.type = "IfElse" /\ Len(CallsFrom(log[i].path)) = 3
          /\ log[r].node.type = "RepeatUntil" /\ Len(CallsFrom(log[r].path)) = 2
          /\ log[f].node.type = "ForLoop" /\ Len(CallsFrom(log[f].path)) = 4

\* Every node held in the fields of v (v itself included when it is a node),
\* fields in the order they are declared and list items in list order.
RECURSIVE NodePaths(_, _)
NodePaths(v, p) ==
    IF v.tag = "node"
    THEN <<p>> \o Flatten([k \in 1..Len(v.fields) |-> NodePaths(v.fields[k], p \o <<k>>)])
    ELSE IF v.tag \in {"list", "tuple"}
    THEN Flatten([k \in 1..Len(v.items) |-> NodePaths(v.items[k], p \o <<k>>)])
    ELSE <<>>

\* C9: a traversal by DefaultASTVisitor calls accept exactly once on every
\* node held in the fields of the nodes it visits, in the order the fields
\* are declared, so that it reaches every node of the tree exactly once; and
\* it leaves the nodes as they were.
C9_DefaultVisitorVisitsEveryChild ==
    (Traversed /\ visitor = "DefaultASTVisitor") =>
        /\ [j \in 1..Len(log) |-> log[j].path] = NodePaths(root[1], <<>>)
        /\ \A j \in 1..Len(log) : log[j].node = ValueAt(root[1], log[j].path)

(***************************************************************************)
(* The claims about node metadata, checked under SpecNode.                 *)
(***************************************************************************)
\* C10: on a freshly constructed node of any class the metadata is absent
\* and get_position returns None without failing; the first set_position
\* succeeds, attaches an ASTMetadata and makes get_position return the
\* position given.
C10_MetadataAbsentUntilFirstWritten ==
    nd # <<>> =>
        /\ ~written => nd[1].metadata.tag # "meta"
        /\ (last.op = "get_position" /\ last.first) => last.result[1] = Returned(None)
        /\ (last.op = "set_position" /\ last.first) =>
              /\ last.result[1].kind = "returned"
              /\ nd[1].metadata.tag = "meta"
              /\ get_position(nd[1]).kind = "returned"
              /\ get_position(nd[1]).value[1].tag = "pos"
              /\ get_position(nd[1]).value[1].line = last.args[1]
              /\ get_position(nd[1]).value[1].column = last.args[2]


\* C11: once a position has been attached to a node, get_position keeps
\* returning that position, whatever is done to the node afterwards: a
\* further set_position, or a write to a field of the stored SourcePosition.
C11_PositionSetOnce ==
    (nd # <<>> /\ attached # <<>>)
        => get_position(nd[1]) = Returned(attached[1])


(***************************************************************************)
(* The exception classes, checked under SpecCatch.                         *)
(***************************************************************************)
\* C12: an except clause for LanguageError handles every ParsingError and
\* every ValidationError that reaches it; a clause for ParsingError never
\* handles a ValidationError, nor a clause for ValidationError a
\* ParsingError.
C12_ExceptionClasses ==
    (cpc = "tried") =>
        /\ (thrown \in {"ParsingError", "ValidationError"}
              /\ \E k \in 1..Len(clauses) : clauses[k] = "LanguageError")
             => caughtBy # 0
        /\ (thrown \in {"ParsingError", "ValidationError"}
              /\ clauses[1] = "LanguageError")
             => caughtBy = 1
        /\ (thrown = "ValidationError" /\ caughtBy # 0)
             => clauses[caughtBy] # "ParsingError"
        /\ (thrown = "ParsingError" /\ caughtBy # 0)
             => clauses[caughtBy] # "ValidationError"

\* A ValidationError passed the ParsingError clause and was handled by the
\* LanguageError clause after it.
C12_Witness ==
    /\ cpc = "tried"
    /\ thrown = "ValidationError"
    /\ clauses = <<"ParsingError", "LanguageError">>
    /\ caughtBy = 2


(***************************************************************************)
(* Repeated and simultaneous calls, checked under SpecParser.              *)
(***************************************************************************)
\* C13: a parse call on a text that was parsed before, on the same
\* instance or on another one and whatever calls ran in between, ends as
\* the earlier call did, and where that one returned a Program it returns
\* an equal Program.
C13_SameTextSameProgram ==
    \A i \in Parsers :
        (earlier # <<>> /\ parseExit[i] # <<>> /\ code[i][1] = earlier[1].code)
            => SameResult(parseExit[i][1], earlier[1].result)

\* The instance of the earlier call is in a later call on the same text, and
\* the other instance has parsed that text too; both returned a Program.
C13_Witness ==
    /\ earlier # <<>>
    /\ earlier[1].left
    /\ earlier[1].result.kind = "returned"
    /\ \A i \in Parsers :
          /\ parseExit[i] # <<>>
          /\ code[i][1] = earlier[1].code
          /\ parseExit[i][1].kind = "returned"
          /\ IsProgram(parseExit[i][1].value[1])


ComponentsOf(i) ==
    {Components(i).file_reader, Components(i).lark_parser, Components(i).transformer}

\* C14: two instances have no file reader, engine wrapper or transformer in
\* common, and however the steps of a call on one instance fall between
\* the steps of a call on the other, each parse call leaves, and each call
\* ends, as it does when it runs alone.
C14_InstancesDoNotInterfere ==
    /\ \A i, j \in Parsers : i # j => ComponentsOf(i) \cap ComponentsOf(j) = {}
    /\ \A i \in Parsers :
          /\ parseExit[i] # <<>> => parseExit[i][1] = ParseAlone(code[i][1])
          /\ (pc[i] = "done" /\ entry[i] = "parse")
                => outcome[i][1] = ParseAlone(code[i][1])
          /\ (pc[i] = "done" /\ entry[i] = "parse_file")
                => outcome[i][1] = ParseFileAlone(path[i][1])

\* The parse call of one instance has returned a Program into parse_file
\* while a call on the other instance stands between the engine and the
\* transformer.
C14_Witness ==
    \E i, j \in Parsers :
        /\ i # j
        /\ pc[i] = "pf_return"
        /\ IsProgram(parseExit[i][1].value[1])
        /\ pc[j] = "parse_transform"


(***************************************************************************)
(* The binary operation builder, checked under SpecChain.                  *)
(***************************************************************************)
\* C15: process_chain on a chain of one operand returns that operand
\* itself, wrapped in no node; on a longer chain it returns the binary node
\* whose operator is the last operator, whose right operand is the last
\* operand, and whose left operand is what process_chain returns for the
\* chain without its last operator and operand.
C15_ProcessChainFoldsLeft ==
    (chpc = "done") =>
        LET n == Len(items)
            result == chret[1].value[1] IN
        /\ chret[1].kind = "returned"
        /\ n = 1 => result = items[1]
        /\ n > 1 =>
              /\ result.tag = "node"
              /\ result.type \in {"BinOp", "ShortCircuitBinOp"}
              /\ Get(result, "op") = items[n - 1]
              /\ Get(result, "right") = items[n]
              /\ Get(result, "left") = process_chain(SubSeq(items, 1, n - 2))

\* a * 1 + a has been folded: (a * 1) + a.
C15_Witness ==
    /\ chpc = "done"
    /\ items = <<Var("a"), Str("*"), Number(1), Str("+"), Var("a")>>
    /\ Get(Get(chret[1].value[1], "left"), "op") = Str("*")


(***************************************************************************)
(* Absent optional parts, checked under SpecVisitor.                       *)
(***************************************************************************)
\* The value at path q of the tree when it is a node, nothing when it is
\* absent.
Present(q) == IF ValueAt(root[1], q).tag = "node" THEN <<q>> ELSE <<>>

\* The bounds present in the ranges of the ArraySlice at p: for each range
\* in list order its start, then its end, or the range itself when it is a
\* single expression.
PresentBounds(p) ==
    LET rs == PartAt(p, "ranges") IN
    Flatten([j \in 1..Len(ValueAt(root[1], rs).items) |->
        IF ValueAt(root[1], rs \o <<j>>).tag = "tuple"
        THEN Present(rs \o <<j, 1>>) \o Present(rs \o <<j, 2>>)
        ELSE Present(rs \o <<j>>)])

\* C16: DefaultASTVisitor on a ReturnStmt without a value, a ForLoop without
\* a loop variable, or an ArraySlice whose ranges lack a start or an end
\* completes without failure and calls accept on nothing that is absent; a
\* value or bound that is present is visited exactly once, the start of a
\* range before its end.
C16_AbsentPartsStayAbsent ==
    (vpc = "done" /\ visitor = "DefaultASTVisitor") =>
        /\ root[1].type \in {"ReturnStmt", "ForLoop", "ArraySlice"}
              => vret[1].kind = "returned"
        /\ \A j \in 1..Len(log) : log[j].node.tag = "node"
        /\ Traversed =>
              \A j \in 1..Len(log) :
                  LET p == log[j].path IN
                  /\ log[j].node.type = "ReturnStmt" => CallsFrom(p) = Present(PartAt(p, "value"))
                  /\ log[j].node.type = "ArraySlice" => CallsFrom(p) = PresentBounds(p)
                  /\ log[j].node.type = "ForLoop" =>
                        /\ \A k \in 1..Len(log) : log[k].path # PartAt(p, "var")
                        /\ CallsFrom(p) = <<PartAt(p, "start"), PartAt(p, "end")>>
                                             \o ItemsAt(p, "body")

\* A traversal has ended of a tree that holds a ForLoop without a variable,
\* a ReturnStmt without a value, and an ArraySlice with a full range, a
\* range without a start, one without an end, one without either, and a
\* single expression.
C16_Witness ==
    /\ Traversed
    /\ visitor = "DefaultASTVisitor"
    /\ \E j \in 1..Len(log) :
          log[j].node.type = "ReturnStmt" /\ Get(log[j].node, "value") = None
    /\ \E j \in 1..Len(log) :
          log[j].node.type = "ForLoop" /\ Get(log[j].node, "var") = None
    /\ \E j \in 1..Len(log) :
          /\ log[j].node.type = "ArraySlice"
          /\ Len(ValueAt(root[1], PartAt(log[j].path, "ranges")).items) = 5
          /\ Len(CallsFrom(log[j].path)) = 5

(***************************************************************************)
(* What leaves parse_file, checked under SpecParser.                       *)
(***************************************************************************)
\* The exception as it was first raised during a parse_file call: by open
\* or read inside the reader, or by the engine or the transformer inside
\* the delegated parse call.
Reached(i) ==
    IF readExit[i] # <<>> /\ readExit[i][1].kind = "raised" THEN OpenAndRead(path[i][1]).exc
    ELSE IF parseExit[i] # <<>> /\ parseExit[i][1].kind = "raised" THEN origin[i]
    ELSE <<>>

\* The caller of parse_file receives e wrapped once: a ParsingError whose
\* message names the path and whose cause is e.
WrappedOnce(i, e) ==
    /\ outcome[i][1].kind = "raised"
    /\ outcome[i][1].exc[1].kind = "ParsingError"
    /\ \E k \in 1..Len(outcome[i][1].exc[1].msg) : outcome[i][1].exc[1].msg[k] = path[i][1].name
    /\ outcome[i][1].exc[1].cause = <<e>>

\* C17: every exception that is not a ParsingError and is raised while the
\* file is read or inside the delegated parse call reaches the caller of
\* parse_file wrapped exactly once in a ParsingError whose message names the
\* path and whose cause is the original exception.
C17_NoOtherErrorEscapes ==
    \A i \in Parsers :
        (pc[i] = "done" /\ entry[i] = "parse_file" /\ Reached(i) # <<>>
            /\ ~IsInstance(Reached(i)[1].kind, "ParsingError"))
            => WrappedOnce(i, Reached(i)[1])

\* C17, amended: every exception that is an Exception but not a ParsingError
\* and is raised while the file is read or inside the delegated parse call
\* reaches the caller of parse_file wrapped exactly once in a ParsingError
\* whose message names the path and whose cause is the original exception;
\* an exception outside Exception reaches the caller as it is.
C17_NoOtherExceptionEscapes ==
    \A i \in Parsers :
        (pc[i] = "done" /\ entry[i] = "parse_file" /\ Reached(i) # <<>>
            /\ ~IsInstance(Reached(i)[1].kind, "ParsingError"))
            => IF IsInstance(Reached(i)[1].kind, "Exception")
               THEN WrappedOnce(i, Reached(i)[1])
               ELSE outcome[i][1] = Raised(Reached(i)[1])

\* One parse_file call has wrapped a ValidationError that parse let through,
\* another a ValueError that the reader let through.
C17_Witness ==
    \E i, j \in Parsers :
        /\ pc[i] = "done" /\ entry[i] = "parse_file"
        /\ FailedWith(parseExit[i], "ValidationError")
        /\ Reached(i) = parseExit[i][1].exc
        /\ WrappedOnce(i, Reached(i)[1])
        /\ pc[j] = "done" /\ entry[j] = "parse_file"
        /\ FailedWith(readExit[j], "ValueError")
        /\ Reached(j) = readExit[j][1].exc
        /\ WrappedOnce(j, Reached(j)[1])

=============================================================================
